---------------------------- MODULE Spec2Model ----------------------------
(***************************************************************************)
(* Model of managers/process_memory_manager.py (class Process): the        *)
(* pointer-chain memory reader and the life of its read handle, process    *)
(* discovery by module name, bulk kill by name, and the focus / restore    *)
(* state machine around key injection.                                     *)
(*                                                                         *)
(* The operating system (kernel32, win32api, win32gui, win32process,       *)
(* psutil) is the environment: each of its calls is an input of the action *)
(* that makes it, drawn from the outcomes the call can have.               *)
(***************************************************************************)
EXTENDS Integers, Sequences, FiniteSets, TLC

VARIABLES
    mem,          \* the target process's memory: address -> word, or Unmapped
    handle,       \* the cached_property process_handle: [cached, value]
    alive,        \* the Process object has not been finalised (__del__)
    nOpen,        \* kernel32.OpenProcess calls made for this object
    nClose,       \* kernel32.CloseHandle calls made for this object
    nCalls,       \* read_memory calls made so far (capped by MaxCalls)
    args,         \* the arguments the caller polls with: address, offsets, byte
    rm,           \* the last read_memory call: reads issued, result
    procs,        \* what the OS reports: the processes, in EnumProcesses order
    fault,        \* the OS call of the module enumeration that raises, if any
    gb,           \* the get_by_name call: OS calls made, outcome, result
    running,      \* what psutil.process_iter yields, in order
    kb,           \* the kill_by_name call: names asked, kills attempted, outcome
    fg,           \* the desktop's foreground window (0: none)
    titled,       \* the window FindWindow finds under window_name (0: none)
    attached,     \* thread-input attachments in force: pairs <<from, to>>
    winCache,     \* the cached_property window_handle: [cached, value]
    tidCache,     \* the cached_property thread_id: [cached, value]
    snapshot,     \* __last_window_handle, __last_window_thread_id: [win, tid]
    op,           \* the last focus operation: OS calls made, outcome
    prev,         \* the operation before it, when no OS event came between
    sent          \* the arguments of the last operation, when it is send_input

readVars == <<mem, handle, alive, nOpen, nClose, nCalls, args, rm>>
findVars == <<procs, fault, gb>>
killVars == <<running, kb>>
focusVars == <<fg, titled, attached, winCache, tidCache, snapshot, op, prev, sent>>

vars == <<readVars, findVars, killVars, focusVars>>

-----------------------------------------------------------------------------
(* Bounds of the model *)

MaxAddr == 1
MaxChain == 2
MaxCalls == 2
MaxProcs == 2
MaxMods == 2

(* ctypes.c_ubyte holds one byte: values are kept modulo 2^8. *)
ByteMod == 256

Unmapped == -1

Addresses == 0 .. MaxAddr

(* Words the target's memory may hold: a small pointer, and a word whose   *)
(* low byte differs from it (so that 1-byte and word reads differ).        *)
CellValues == {1, ByteMod + 11}

Memories == [Addresses -> CellValues \cup {Unmapped}]

-----------------------------------------------------------------------------
(* Offsets: a Python int, or a str parsed by int(offset, 16) *)

IntOff(k) == [isStr |-> FALSE, int |-> k, str |-> <<>>]
StrOff(s) == [isStr |-> TRUE, int |-> 0, str |-> s]

HexLower == <<"0", "1", "2", "3", "4", "5", "6", "7", "8", "9",
              "a", "b", "c", "d", "e", "f">>
HexUpper == <<"0", "1", "2", "3", "4", "5", "6", "7", "8", "9",
              "A", "B", "C", "D", "E", "F">>

(* Value of one hexadecimal digit, either case. *)
HexDigitValue(c) ==
    IF \E i \in 1 .. 16 : HexLower[i] = c
    THEN (CHOOSE i \in 1 .. 16 : HexLower[i] = c) - 1
    ELSE (CHOOSE i \in 1 .. 16 : HexUpper[i] = c) - 1

RECURSIVE HexDigitsValue(_, _)
HexDigitsValue(s, acc) ==
    IF s = <<>> THEN acc
    ELSE HexDigitsValue(Tail(s), acc * 16 + HexDigitValue(Head(s)))

StripPrefix(s) ==
    IF Len(s) >= 2 /\ s[1] = "0" /\ s[2] \in {"x", "X"}
    THEN SubSeq(s, 3, Len(s))
    ELSE s

(* int(s, 16) for a well-formed literal: optional sign, optional 0x / 0X,  *)
(* then hexadecimal digits, most significant first.                        *)
ParseHex(s) ==
    IF s # <<>> /\ Head(s) = "-" THEN 0 - HexDigitsValue(StripPrefix(Tail(s)), 0)
    ELSE IF s # <<>> /\ Head(s) = "+" THEN HexDigitsValue(StripPrefix(Tail(s)), 0)
    ELSE HexDigitsValue(StripPrefix(s), 0)

(* Faulty variant of OffsetToInt: the string is parsed in base 10. *)
RECURSIVE DecDigitsValue(_, _)
DecDigitsValue(s, acc) ==
    IF s = <<>> THEN acc
    ELSE DecDigitsValue(Tail(s), acc * 10 + HexDigitValue(Head(s)))

OffsetToIntBase10(offset) ==
    IF offset.isStr
    THEN IF Head(offset.str) = "-"
         THEN 0 - DecDigitsValue(StripPrefix(Tail(offset.str)), 0)
         ELSE DecDigitsValue(StripPrefix(offset.str), 0)
    ELSE offset.int

(* read_memory, lines 60-62: "Convert to int if its str". *)
OffsetToInt(offset) ==
    IF offset.isStr THEN ParseHex(offset.str) ELSE offset.int

(* Python's hex(k): "0x" and lower-case digits, "-0x..." below zero.       *)
RECURSIVE HexDigitsOf(_)
HexDigitsOf(n) ==
    IF n < 16 THEN <<HexLower[n + 1]>>
    ELSE Append(HexDigitsOf(n \div 16), HexLower[(n % 16) + 1])

Hex(k) ==
    IF k < 0 THEN <<"-", "0", "x">> \o HexDigitsOf(0 - k)
    ELSE <<"0", "x">> \o HexDigitsOf(k)

OffsetChoices ==
    { IntOff(-1), IntOff(1), IntOff(26),
      StrOff(<<"0", "x", "1">>), StrOff(<<"-", "0", "X", "A">>) }

RECURSIVE SeqsUpTo(_, _)
SeqsUpTo(S, n) ==
    IF n = 0 THEN {<<>>}
    ELSE LET shorter == SeqsUpTo(S, n - 1)
         IN  shorter \cup {Append(q, x) : q \in {r \in shorter : Len(r) = n - 1}, x \in S}

(* The offsets argument: None (given = FALSE) or a list. *)
NoOffsets == [given |-> FALSE, chain |-> <<>>]
OffsetArgs ==
    {NoOffsets} \cup {[given |-> TRUE, chain |-> c] : c \in SeqsUpTo(OffsetChoices, MaxChain)}

(* Python truth value of the offsets argument ("if offsets:"). *)
Truthy(offsets) == offsets.given /\ Len(offsets.chain) > 0

-----------------------------------------------------------------------------
(* kernel32.ReadProcessMemory into the buffer "data" *)

(* The read succeeds when the handle is valid and the address is mapped;   *)
(* a failed read leaves the buffer as it was.                              *)
ReadOk(h, m, addr) == h # 0 /\ addr \in DOMAIN m /\ m[addr] # Unmapped

Width(word, byte) == IF byte THEN word % ByteMod ELSE word

ReadProcessMemory(h, m, addr, data, byte) ==
    IF ReadOk(h, m, addr)
    THEN [ok |-> TRUE, data |-> Width(m[addr], byte)]
    ELSE [ok |-> FALSE, data |-> data]

ReadRecord(addr, rd) == [addr |-> addr, ok |-> rd.ok, data |-> rd.data]

(* Faulty variant of ChainSteps: the address computed from the last offset is read *)
(* too (the chain is fully dereferenced).                                  *)
RECURSIVE ChainStepsDerefLast(_, _, _, _, _, _)
ChainStepsDerefLast(h, m, byte, offs, st, i) ==
    IF i > Len(offs)
    THEN LET rd == ReadProcessMemory(h, m, st.cur, st.data, byte)
         IN  [cur |-> st.cur, data |-> rd.data,
              reads |-> Append(st.reads, ReadRecord(st.cur, rd))]
    ELSE LET rd == ReadProcessMemory(h, m, st.cur, st.data, byte)
         IN  ChainStepsDerefLast(h, m, byte, offs,
                 [cur |-> rd.data + OffsetToInt(offs[i]), data |-> rd.data,
                  reads |-> Append(st.reads, ReadRecord(st.cur, rd))], i + 1)

(* read_memory, lines 59-69: the loop over the offsets. *)
RECURSIVE ChainSteps(_, _, _, _, _, _)
ChainSteps(h, m, byte, offs, st, i) ==
    IF i > Len(offs) THEN st
    ELSE LET rd == ReadProcessMemory(h, m, st.cur, st.data, byte)
         IN  ChainSteps(h, m, byte, offs,
                 [cur |-> rd.data + OffsetToInt(offs[i]), data |-> rd.data,
                  reads |-> Append(st.reads, ReadRecord(st.cur, rd))], i + 1)

(* Faulty variant of SingleRead: no read is made without a chain. *)
SingleReadNone(h, m, byte, st) == st

(* read_memory, lines 70-74: the single read without a chain. *)
SingleRead(h, m, byte, st) ==
    LET rd == ReadProcessMemory(h, m, st.cur, st.data, byte)
    IN  [cur |-> st.cur, data |-> rd.data,
         reads |-> Append(st.reads, ReadRecord(st.cur, rd))]

(* Faulty variant of ReadMemoryCall: the address returned is the one last read,    *)
(* before the final offset is added.                                       *)
ReadMemoryCallLastRead(h, m, address, offsets, byte) ==
    LET st0 == [cur |-> address, data |-> 0, reads |-> <<>>]
        st  == IF Truthy(offsets)
               THEN ChainSteps(h, m, byte, offsets.chain, st0, 1)
               ELSE SingleRead(h, m, byte, st0)
    IN  [reads |-> st.reads, outcome |-> "returned",
         ret |-> <<st.reads[Len(st.reads)].addr, st.data>>]

(* read_memory, lines 49-79, on handle value h: the reads it issues and    *)
(* the pair it returns.  It has no path that raises on a failed read.      *)
ReadMemoryCall(h, m, address, offsets, byte) ==
    LET st0 == [cur |-> address, data |-> 0, reads |-> <<>>]
        st  == IF Truthy(offsets)
               THEN ChainSteps(h, m, byte, offsets.chain, st0, 1)
               ELSE SingleRead(h, m, byte, st0)
    IN  [reads |-> st.reads, outcome |-> "returned", ret |-> <<st.cur, st.data>>]

-----------------------------------------------------------------------------
(* The read handle *)

HandleId == 7

NotCached == [cached |-> FALSE, value |-> 0]

(* Faulty variant of ProcessHandle: the property is not memoised. *)
ProcessHandleUncached(cur, opened) == [cached |-> FALSE, value |-> opened]

(* process_handle, lines 28-33: the value after an access; opened is what  *)
(* kernel32.OpenProcess returns if it is called (0 on failure).            *)
ProcessHandle(cur, opened) ==
    IF cur.cached THEN cur ELSE [cached |-> TRUE, value |-> opened]

OpenResults == {0, HandleId}

NoCall == [called |-> FALSE, h |-> 0, reads |-> <<>>, outcome |-> "none", ret |-> <<0, 0>>]

ArgSets == [address : Addresses, offsets : OffsetArgs, byte : BOOLEAN]

ReadStart(m, a) ==
    /\ mem = m
    /\ handle = NotCached
    /\ alive = TRUE
    /\ nOpen = 0
    /\ nClose = 0
    /\ nCalls = 0
    /\ args = a
    /\ rm = NoCall

(* read_memory(address, offsets, byte), lines 45-79. *)
ReadMemory ==
    /\ alive
    /\ nCalls < MaxCalls
    /\ \E opened \in OpenResults :
          LET after == ProcessHandle(handle, opened)
              res   == ReadMemoryCall(after.value, mem, args.address, args.offsets, args.byte)
          IN  /\ handle' = after
              /\ nOpen' = IF handle.cached THEN nOpen ELSE nOpen + 1
              /\ rm' = [called |-> TRUE, h |-> after.value, reads |-> res.reads,
                        outcome |-> res.outcome, ret |-> res.ret]
    /\ nCalls' = nCalls + 1
    /\ UNCHANGED <<mem, alive, nClose, args>>
    /\ UNCHANGED <<findVars, killVars, focusVars>>

(* __del__, lines 263-266: reads process_handle (opening it if no read     *)
(* did) and closes it when it is non-zero.                                 *)
Del ==
    /\ alive
    /\ \E opened \in OpenResults :
          LET after == ProcessHandle(handle, opened)
          IN  /\ handle' = after
              /\ nOpen' = IF handle.cached THEN nOpen ELSE nOpen + 1
              /\ nClose' = IF after.value # 0 THEN nClose + 1 ELSE nClose
    /\ alive' = FALSE
    /\ UNCHANGED <<mem, nCalls, args, rm>>
    /\ UNCHANGED <<findVars, killVars, focusVars>>

-----------------------------------------------------------------------------
(* get_by_name: process discovery by module file name *)

(* The id that get_by_name skips (line 201). *)
Sentinel == -1

Upper == <<"A", "C", "G", "X">>
Lower == <<"a", "c", "g", "x">>

(* Faulty variant of Casefold: the comparison keeps the case. *)
CasefoldNone(c) == c

(* str.casefold on one character of the letters used here. *)
Casefold(c) ==
    IF \E i \in 1 .. Len(Upper) : Upper[i] = c
    THEN Lower[CHOOSE i \in 1 .. Len(Upper) : Upper[i] = c]
    ELSE c

CasefoldStr(s) == [i \in 1 .. Len(s) |-> Casefold(s[i])]

(* Python's "needle in hay" on strings. *)
Contains(needle, hay) ==
    \E k \in 0 .. (Len(hay) - Len(needle)) :
        SubSeq(hay, k + 1, k + Len(needle)) = needle

(* Line 218: process_name.casefold() in current_name.casefold(). *)
NameMatches(name, path) == Contains(CasefoldStr(name), CasefoldStr(path))

SearchName == <<"g", "A">>
GamePath == <<"C", "G", "a", "x">>
OtherPath == <<"a", "G", "x">>
Paths == {GamePath, OtherPath}

(* The base address EnumProcessModules reports for module j of process p. *)
BaseOf(p, j) == p * 16 + j

(* One process as the OS reports it at position p: its id, whether         *)
(* OpenProcess succeeds on it, and the file paths of its modules in        *)
(* EnumProcessModules order.                                               *)
Proc(pid, openable, modules) ==
    [pid |-> pid, openable |-> openable, modules |-> modules]

ModuleLists == SeqsUpTo(Paths, MaxMods)

ProcKinds(p) ==
    {Proc(Sentinel, FALSE, <<>>), Proc(p, FALSE, <<GamePath>>)}
    \cup {Proc(p, TRUE, ms) : ms \in ModuleLists}

RECURSIVE ProcListsOfLen(_)
ProcListsOfLen(n) ==
    IF n = 0 THEN {<<>>}
    ELSE {Append(ps, k) : ps \in ProcListsOfLen(n - 1), k \in ProcKinds(n)}

ProcLists == UNION {ProcListsOfLen(n) : n \in 0 .. MaxProcs}

(* The call that raises: EnumProcessModules on the process at position     *)
(* proc ("enum"), or GetModuleFileNameEx on its module at ("name").  The   *)
(* first error ends get_by_name, so one is enough.                         *)
NoFault == [proc |-> 0, kind |-> "none", at |-> 0]

Faults(ps) ==
    {NoFault}
    \cup {[proc |-> p, kind |-> "enum", at |-> 0] :
             p \in {q \in 1 .. Len(ps) : ps[q].openable}}
    \cup UNION {{[proc |-> p, kind |-> "name", at |-> j] : j \in 1 .. Len(ps[p].modules)} :
                   p \in {q \in 1 .. Len(ps) : ps[q].openable}}

Ev(call, pid) == [call |-> call, pid |-> pid]

(* Lines 213-220: the loop over the modules of the process at position p,  *)
(* from module j on.  done: the loop was left by return or by an error.    *)
RECURSIVE ScanModules(_, _, _, _, _, _)
ScanModules(ps, ft, name, p, j, log) ==
    LET proc == ps[p]
    IN  IF j > Len(proc.modules)
        THEN [done |-> FALSE, outcome |-> "none", result |-> <<0, 0>>, log |-> log]
        ELSE IF ft.kind = "name" /\ ft.proc = p /\ ft.at = j
        THEN [done |-> TRUE, outcome |-> "error", result |-> <<0, 0>>,
              log |-> Append(log, Ev("GetModuleFileNameEx", proc.pid))]
        ELSE IF NameMatches(name, proc.modules[j])
        THEN [done |-> TRUE, outcome |-> "returned",
              result |-> <<proc.pid, BaseOf(p, j)>>,
              log |-> Append(log, Ev("GetModuleFileNameEx", proc.pid))]
        ELSE ScanModules(ps, ft, name, p, j + 1,
                         Append(log, Ev("GetModuleFileNameEx", proc.pid)))

(* Faulty variant of Finally: the handle is closed only when the module loop ran   *)
(* to its end (the close is skipped by return and by an error).            *)
FinallyOnFallThrough(pid, body) ==
    IF body.done THEN body.log ELSE Append(body.log, Ev("CloseHandle", pid))

(* Lines 222-225: the finally clause, run on every way out of the try      *)
(* statement once the handle is open.                                      *)
Finally(pid, body) == Append(body.log, Ev("CloseHandle", pid))

(* Lines 199-227: the loop over the process ids, from position p on. *)
RECURSIVE ScanProcesses(_, _, _, _, _)
ScanProcesses(ps, ft, name, p, log) ==
    IF p > Len(ps)
    THEN [outcome |-> "notfound", result |-> <<0, 0>>, log |-> log]
    ELSE LET proc == ps[p]
         IN  IF proc.pid = Sentinel
             THEN ScanProcesses(ps, ft, name, p + 1, log)
             ELSE IF ~proc.openable
             THEN ScanProcesses(ps, ft, name, p + 1, Append(log, Ev("OpenProcessFailed", proc.pid)))
             ELSE LET opened == Append(log, Ev("OpenProcess", proc.pid))
                      body == IF ft.kind = "enum" /\ ft.proc = p
                              THEN [done |-> TRUE, outcome |-> "error", result |-> <<0, 0>>,
                                    log |-> Append(opened, Ev("EnumProcessModules", proc.pid))]
                              ELSE ScanModules(ps, ft, name, p, 1,
                                       Append(opened, Ev("EnumProcessModules", proc.pid)))
                      after == Finally(proc.pid, body)
                  IN  IF body.done
                      THEN [outcome |-> body.outcome, result |-> body.result, log |-> after]
                      ELSE ScanProcesses(ps, ft, name, p + 1, after)

(* get_by_name(process_name, window_name), lines 195-227. *)
GetByNameCall(ps, ft, name) == ScanProcesses(ps, ft, name, 1, <<>>)

NoFind == [called |-> FALSE, outcome |-> "none", result |-> <<0, 0>>, log |-> <<>>]

FindStart(ps, ft) ==
    /\ procs = ps
    /\ fault = ft
    /\ gb = NoFind

GetByName ==
    /\ ~gb.called
    /\ LET res == GetByNameCall(procs, fault, SearchName)
       IN  gb' = [called |-> TRUE, outcome |-> res.outcome, result |-> res.result,
                  log |-> res.log]
    /\ UNCHANGED <<procs, fault>>
    /\ UNCHANGED <<readVars, killVars, focusVars>>

-----------------------------------------------------------------------------
(* kill_by_name: best-effort termination by process name *)

PsutilErrors == {"AccessDenied", "NoSuchProcess"}

(* One process as psutil.process_iter yields it: its name, what the first  *)
(* proc.name() does ("ok" or the psutil error it raises: the process may   *)
(* have exited, or deny access, since it was listed), and what proc.kill() *)
(* does.                                                                   *)
ProcessNames == {<<"G", "a">>, <<"x">>, <<"c">>}
Running == [name : ProcessNames, onName : {"ok"} \cup PsutilErrors,
            onKill : {"ok"} \cup PsutilErrors]

RunningLists == SeqsUpTo(Running, MaxProcs)

NameLists == {<<>>, <<SearchName>>, <<<<"X">>, SearchName>>}

(* Line 127: names = list(map(lambda x: x.casefold(), names)). *)
CasefoldAll(names) == [i \in 1 .. Len(names) |-> CasefoldStr(names[i])]

(* Line 130: proc.name().casefold() in names. *)
NameListed(name, folded) == \E i \in 1 .. Len(folded) : folded[i] = CasefoldStr(name)

(* Lines 129-136: the loop over the processes, from position i on.  The    *)
(* first proc.name() of a process (line 130) is made outside the try       *)
(* statement; psutil keeps the name it returned, so the one of line 134    *)
(* does not ask the OS again.                                              *)
RECURSIVE KillLoop(_, _, _, _)
KillLoop(ps, folded, i, st) ==
    IF i > Len(ps) THEN [st EXCEPT !.outcome = "returned"]
    ELSE IF ps[i].onName # "ok"
    THEN [st EXCEPT !.outcome = "raised", !.error = ps[i].onName, !.at = i]
    ELSE IF ~NameListed(ps[i].name, folded)
    THEN KillLoop(ps, folded, i + 1, st)
    ELSE IF ps[i].onKill = "AccessDenied"
    THEN KillLoop(ps, folded, i + 1,
             [st EXCEPT !.kills = Append(@, i), !.logged = Append(@, i)])
    ELSE KillLoop(ps, folded, i + 1, [st EXCEPT !.kills = Append(@, i)])

(* kill_by_name(names), lines 124-136. *)
KillByNameCall(ps, names) ==
    KillLoop(ps, CasefoldAll(names), 1,
             [outcome |-> "none", error |-> "none", at |-> 0, kills |-> <<>>,
              logged |-> <<>>])

NoKill == [called |-> FALSE, names |-> <<>>, outcome |-> "none", error |-> "none",
           at |-> 0, kills |-> <<>>, logged |-> <<>>]

KillStart(ps) ==
    /\ running = ps
    /\ kb = NoKill

KillByName ==
    /\ ~kb.called
    /\ \E names \in NameLists :
          LET res == KillByNameCall(running, names)
          IN  kb' = [called |-> TRUE, names |-> names, outcome |-> res.outcome,
                     error |-> res.error, at |-> res.at, kills |-> res.kills,
                     logged |-> res.logged]
    /\ UNCHANGED running
    /\ UNCHANGED <<readVars, findVars, focusVars>>

-----------------------------------------------------------------------------
(* focus / focus_back_to_last_window: the desktop and the object's caches *)

(* Window handles: two incarnations of the target's window (the window may *)
(* be destroyed and created anew under the same title) and another         *)
(* application's window; the thread calling focus().                       *)
W1 == 1
W2 == 2
OtherWin == 3
MyTid == 9
NoneVal == -1

TargetWindows == {W1, W2}

(* The windows that exist when FindWindow finds t under the title. *)
Existing(t) == {OtherWin} \cup ({t} \ {0})

(* win32process.GetWindowThreadProcessId(w)[0]: the thread owning w, 0 for *)
(* a handle that is no window.                                             *)
OwnerThread(w, t) == IF w \in Existing(t) THEN 10 + w ELSE 0

Call(name, a, b, ok) == [call |-> name, a |-> a, b |-> b, ok |-> ok]

(* Where the OS lets an attempt fail: nowhere, or at one of its calls. *)
FailPoints == {"none", "press", "attach", "setfg"}

(* window_handle, lines 35-38: the state after the property is read. *)
WithWindowHandle(st) ==
    IF st.win.cached THEN st
    ELSE [st EXCEPT !.win = [cached |-> TRUE, value |-> st.titled],
                    !.log = Append(@, Call("FindWindow", st.titled, 0, TRUE))]

(* thread_id, lines 40-43: the state after the property is read. *)
WithThreadId(st) ==
    IF st.tid.cached THEN st
    ELSE LET w == WithWindowHandle(st)
         IN  [w EXCEPT !.tid = [cached |-> TRUE,
                                value |-> OwnerThread(w.win.value, w.titled)]]

(* Lines 92-99: one attempt.  err is "none" when the three calls went      *)
(* through, else the call that raised.                                     *)
Attempt(st, failAt) ==
    LET pressed == [st EXCEPT !.log = Append(@, Call("press", 0, 0, failAt # "press"))]
        t       == WithThreadId(pressed)
        attOk   == failAt # "attach" /\ t.tid.value # 0
        att     == [t EXCEPT !.log = Append(@, Call("AttachThreadInput", t.snap.tid,
                                                    t.tid.value, attOk)),
                             !.attached = IF attOk THEN @ \cup {<<t.snap.tid, t.tid.value>>}
                                          ELSE @]
        w       == WithWindowHandle(att)
        fgOk    == failAt # "setfg" /\ w.win.value \in Existing(w.titled)
        set     == [w EXCEPT !.log = Append(@, Call("SetForegroundWindow", w.win.value,
                                                    0, fgOk)),
                             !.fg = IF fgOk THEN w.win.value ELSE @]
    IN  IF failAt = "press" THEN [pressed EXCEPT !.err = "press"]
        ELSE IF ~attOk THEN [att EXCEPT !.err = "attach"]
        ELSE IF ~fgOk THEN [set EXCEPT !.err = "setfg"]
        ELSE [set EXCEPT !.err = "none"]

(* Lines 101-105: the except clause.  delattr raises AttributeError when   *)
(* window_handle is not cached.                                            *)
Handler(st) ==
    IF st.win.cached
    THEN [st EXCEPT !.win = [cached |-> FALSE, value |-> 0]]
    ELSE [st EXCEPT !.err = "AttributeError", !.outcome = "raised"]

(* Faulty variant of AlreadyForeground: the test of line 87 is left out. *)
AlreadyForegroundNever(last, wh) == FALSE

(* Line 87: the target already is the foreground window. *)
AlreadyForeground(last, wh) == last = wh

Returned(st) == [st EXCEPT !.outcome = "returned"]
Raised(st) == [st EXCEPT !.outcome = "raised"]

(* focus(), lines 81-109, from state st with the OS failing the first      *)
(* attempt at f1 and the second at f2.                                     *)
FocusCall(st, f1, f2) ==
    LET snap  == [st EXCEPT !.snap = [win |-> st.fg, tid |-> MyTid]]
        start == [WithWindowHandle(snap) EXCEPT !.fgBefore = st.fg]
        test  == [start EXCEPT !.whTest = start.win.value]
    IN  IF AlreadyForeground(test.snap.win, test.win.value) THEN Returned(test)
        ELSE LET a1 == Attempt(test, f1)
             IN  IF a1.err = "none" THEN Returned(a1)
                 ELSE LET h1 == Handler(a1)
                      IN  IF h1.outcome = "raised" THEN h1
                          ELSE LET a2 == Attempt(h1, f2)
                               IN  IF a2.err = "none" THEN Returned(a2)
                                   ELSE LET h2 == Handler(a2)
                                        IN  IF h2.outcome = "raised" THEN h2
                                            ELSE Raised(h2)

BackFailPoints == {"none", "press", "detach", "setfg"}

(* focus_back_to_last_window(), lines 111-122, with the OS failing at f.   *)
(* Only SetForegroundWindow is inside the try statement; a snapshot never  *)
(* taken holds None, which the OS calls refuse with a TypeError.           *)
FocusBackCall(st, f) ==
    LET start == [WithWindowHandle(st) EXCEPT !.fgBefore = st.fg]
        test  == [start EXCEPT !.whTest = start.win.value]
        pressed == [test EXCEPT !.log = Append(@, Call("press", 0, 0, f # "press"))]
        t     == WithThreadId(pressed)
        detOk == f # "detach" /\ t.tid.value # 0 /\ t.snap.tid # NoneVal
        det   == [t EXCEPT !.log = Append(@, Call("DetachThreadInput", t.snap.tid,
                                                  t.tid.value, detOk)),
                           !.attached = IF detOk THEN @ \ {<<t.snap.tid, t.tid.value>>}
                                        ELSE @]
        fgOk  == f # "setfg" /\ det.snap.win \in Existing(det.titled)
        set   == [det EXCEPT !.log = Append(@, Call("SetForegroundWindow", det.snap.win,
                                                    0, fgOk)),
                             !.fg = IF fgOk THEN det.snap.win ELSE @]
    IN  IF test.snap.win = test.win.value THEN Returned(test)
        ELSE IF f = "press" THEN Raised([pressed EXCEPT !.err = "press"])
        ELSE IF ~detOk
        THEN Raised([det EXCEPT !.err = IF t.snap.tid = NoneVal THEN "TypeError"
                                        ELSE "detach"])
        ELSE Returned(set)

(* The object and the desktop as one record, for the operators above. *)
Here(name) ==
    [name |-> name, fg |-> fg, titled |-> titled, attached |-> attached,
     win |-> winCache, tid |-> tidCache, snap |-> snapshot,
     log |-> <<>>, err |-> "none", outcome |-> "none",
     fgBefore |-> fg, whTest |-> NoneVal]

(* Successful SetForegroundWindow calls in a log: changes of foreground. *)
Transitions(log) ==
    Cardinality({k \in 1 .. Len(log) : log[k].call = "SetForegroundWindow" /\ log[k].ok})

(* Successful AttachThreadInput(.., True) calls in a log. *)
Attaches(log) ==
    Cardinality({k \in 1 .. Len(log) : log[k].call = "AttachThreadInput" /\ log[k].ok})

Summary(o) ==
    [name |-> o.name, outcome |-> o.outcome, noop |-> o.fgBefore = o.whTest,
     transitions |-> Transitions(o.log), fgBefore |-> o.fgBefore,
     attaches |-> Attaches(o.log)]

(* The object and the desktop as an operation leaves them. *)
Lands(st) ==
    /\ fg' = st.fg
    /\ attached' = st.attached
    /\ winCache' = st.win
    /\ tidCache' = st.tid
    /\ snapshot' = st.snap
    /\ op' = [name |-> st.name, log |-> st.log, err |-> st.err, outcome |-> st.outcome,
              fgBefore |-> st.fgBefore, whTest |-> st.whTest]
    /\ UNCHANGED titled

(* A focus operation: the one before it is kept for comparison. *)
Becomes(st) == prev' = Summary(op) /\ Lands(st)

NoOp == [name |-> "none", log |-> <<>>, err |-> "none", outcome |-> "none",
         fgBefore |-> 0, whTest |-> NoneVal]

NoPrev == Summary(NoOp)

NoSend == [keys |-> <<>>, focus |-> FALSE, focus_back |-> FALSE, send_to_process |-> FALSE,
           called |-> FALSE]

FocusStart ==
    /\ fg \in {0, OtherWin}
    /\ titled \in {0, W1}
    /\ attached = {}
    /\ winCache = [cached |-> FALSE, value |-> 0]
    /\ tidCache = [cached |-> FALSE, value |-> 0]
    /\ snapshot = [win |-> NoneVal, tid |-> NoneVal]
    /\ op = NoOp
    /\ prev = NoPrev
    /\ sent = NoSend

FocusIdle ==
    /\ fg = 0
    /\ titled = 0
    /\ attached = {}
    /\ winCache = [cached |-> FALSE, value |-> 0]
    /\ tidCache = [cached |-> FALSE, value |-> 0]
    /\ snapshot = [win |-> NoneVal, tid |-> NoneVal]
    /\ op = NoOp
    /\ prev = NoPrev
    /\ sent = NoSend

(* focus(), lines 81-109. *)
Focus ==
    /\ \E f1 \in FailPoints, f2 \in FailPoints :
          Becomes(FocusCall(Here("focus"), f1, f2))
    /\ sent' = NoSend
    /\ UNCHANGED <<readVars, findVars, killVars>>

(* focus_back_to_last_window(), lines 111-122. *)
FocusBackToLastWindow ==
    /\ \E f \in BackFailPoints :
          Becomes(FocusBackCall(Here("focus_back"), f))
    /\ sent' = NoSend
    /\ UNCHANGED <<readVars, findVars, killVars>>

(* The user, or another program, brings another window to the front. *)
ForegroundChanges ==
    /\ \E w \in (Existing(titled) \cup {0}) \ {fg} : fg' = w
    /\ op' = NoOp
    /\ prev' = NoPrev
    /\ sent' = NoSend
    /\ UNCHANGED <<titled, attached, winCache, tidCache, snapshot>>
    /\ UNCHANGED <<readVars, findVars, killVars>>

(* The target's window is destroyed, or created (anew) under its title;    *)
(* a destroyed window is no longer the foreground window.                  *)
TargetWindowChanges ==
    /\ \E t \in (TargetWindows \cup {0}) \ {titled} :
          /\ titled' = t
          /\ fg' \in IF fg = titled /\ fg # 0 THEN Existing(t) \cup {0} ELSE {fg}
    /\ op' = NoOp
    /\ prev' = NoPrev
    /\ sent' = NoSend
    /\ UNCHANGED <<attached, winCache, tidCache, snapshot>>
    /\ UNCHANGED <<readVars, findVars, killVars>>

-----------------------------------------------------------------------------
(* send_input: key injection, through the desktop or straight to the window *)

(* Key tokens as send_input is given them: strings, here sequences of      *)
(* characters.  In a combination the character comes first: line 169       *)
(* hands the first part to VkKeyScan, which takes one character.           *)
KeyShiftA == <<"A">>
KeyCtrlB == <<"b", "+", "c", "t", "r", "l">>

(* The *keys a call is made with. *)
KeyLists == {<<>>, <<KeyShiftA, KeyCtrlB>>}

(* str.split('+'), line 166. *)
RECURSIVE SplitFrom(_, _, _)
SplitFrom(s, part, parts) ==
    IF s = <<>> THEN Append(parts, part)
    ELSE IF Head(s) = "+" THEN SplitFrom(Tail(s), <<>>, Append(parts, part))
    ELSE SplitFrom(Tail(s), Append(part, Head(s)), parts)

Split(key) == SplitFrom(key, <<>>, <<>>)

(* 'ctrl' in _keys, line 171. *)
HasCtrl(parts) == \E k \in 1 .. Len(parts) : parts[k] = <<"c", "t", "r", "l">>

WM_KEYDOWN == 256
WM_KEYUP == 257
ExtendedKey == 512
KeyUpBits == 1342177281
ByteMask == 256
ScanShift == 65536

(* win32api.VkKeyScan(c), line 143: the virtual key in the low byte, the   *)
(* shift state in the high byte; -1 (all bits set) for no such key.        *)
VkKeyScan(c) ==
    IF c = <<"A">> THEN ByteMask + 65
    ELSE IF c = <<"b">> THEN 66
    ELSE ByteMask * ByteMask - 1

(* char2key, lines 138-148: result & 0xFF. *)
Char2Key(c) == VkKeyScan(c) % ByteMask

(* win32api.MapVirtualKey(vk, 0): the scan code of a virtual key, 0 for a  *)
(* code that is no virtual key.                                            *)
MapVirtualKey(vk) == IF vk = 65 THEN 30 ELSE IF vk = 66 THEN 48 ELSE 0

(* Faulty variant of VkOf: the modifier bit is set on the key-down only. *)
VkOfDownOnly(key, message) ==
    IF HasCtrl(Split(key)) /\ message = WM_KEYDOWN
    THEN ExtendedKey + Char2Key(Split(key)[1])
    ELSE Char2Key(Split(key)[1])

(* Lines 166-172: the code sent for a token; 0x200 | vk sets a bit above   *)
(* the byte char2key returns.  Both messages carry it.                     *)
VkOf(key, message) ==
    IF HasCtrl(Split(key)) THEN ExtendedKey + Char2Key(Split(key)[1])
    ELSE Char2Key(Split(key)[1])

(* _prepare_lparam, lines 185-193: the scan code shifted left by 16, or-ed *)
(* with 0x50000001 for a key-up; the bits do not overlap.                  *)
PrepareLparam(message, vk) ==
    MapVirtualKey(vk) * ScanShift + (IF message = WM_KEYDOWN THEN 0 ELSE KeyUpBits)

(* A message to a window, of token i of the call: ok when the call did not *)
(* raise, delivered when the window addressed exists.                      *)
Msg(name, hwnd, message, vk, i, ok, delivered) ==
    [call |-> name, a |-> hwnd, b |-> vk, ok |-> ok, msg |-> message,
     lparam |-> PrepareLparam(message, vk), token |-> i, delivered |-> delivered]

(* Manager.press_and_release(key, ..), line 163, for token i. *)
KeyEvent(i, key, ok) ==
    [call |-> "key", a |-> 0, b |-> 0, ok |-> ok, token |-> i, key |-> key]

Mark(st, name) == [st EXCEPT !.log = Append(@, Call(name, 0, 0, TRUE))]

(* Faulty variant of Direct: the message goes to the foreground window. *)
DirectToForeground(st, keys, i) ==
    LET w     == WithWindowHandle(st)
        live  == st.fg \in Existing(w.titled)
        down  == [w EXCEPT !.log = Append(@, Msg("SendMessage", st.fg, WM_KEYDOWN,
                                                 VkOf(keys[i], WM_KEYDOWN), i, TRUE, live))]
        upOk  == live \/ st.fg = 0
        up    == [down EXCEPT !.log = Append(@, Msg("PostMessage", st.fg, WM_KEYUP,
                                                    VkOf(keys[i], WM_KEYUP), i, upOk, live))]
    IN  IF upOk THEN up ELSE Raised([up EXCEPT !.err = "PostMessage"])

(* Lines 165-177: token i straight to the window.  SendMessage returns     *)
(* whatever became of the message; PostMessage raises for a handle that is *)
(* no window, and posts to the calling thread for the handle 0.            *)
Direct(st, keys, i) ==
    LET w     == WithWindowHandle(st)
        live  == w.win.value \in Existing(w.titled)
        down  == [w EXCEPT !.log = Append(@, Msg("SendMessage", w.win.value, WM_KEYDOWN,
                                                 VkOf(keys[i], WM_KEYDOWN), i, TRUE, live))]
        upOk  == live \/ w.win.value = 0
        up    == [down EXCEPT !.log = Append(@, Msg("PostMessage", w.win.value, WM_KEYUP,
                                                    VkOf(keys[i], WM_KEYUP), i, upOk, live))]
    IN  IF upOk THEN up ELSE Raised([up EXCEPT !.err = "PostMessage"])

(* Line 163: token i through the desktop's synthetic input. *)
Global(st, keys, i, ok) ==
    LET k == [st EXCEPT !.log = Append(@, KeyEvent(i, keys[i], ok))]
    IN  IF ok THEN k ELSE Raised([k EXCEPT !.err = "key"])

(* Faulty variant of KeyLoop: the tokens are taken last first. *)
RECURSIVE KeyLoopReversed(_, _, _, _, _)
KeyLoopReversed(st, keys, i, direct, kf) ==
    IF i > Len(keys) THEN st
    ELSE LET j == Len(keys) + 1 - i
             s == IF direct THEN Direct(st, keys, j) ELSE Global(st, keys, j, kf # j)
         IN  IF s.outcome = "raised" THEN s ELSE KeyLoopReversed(s, keys, i + 1, direct, kf)

(* Lines 161-180: the loop over the tokens, from token i on; kf is the     *)
(* token at which press_and_release raises (0: none).                      *)
RECURSIVE KeyLoop(_, _, _, _, _)
KeyLoop(st, keys, i, direct, kf) ==
    IF i > Len(keys) THEN st
    ELSE LET s == IF direct THEN Direct(st, keys, i) ELSE Global(st, keys, i, kf # i)
         IN  IF s.outcome = "raised" THEN s ELSE KeyLoop(s, keys, i + 1, direct, kf)

(* Lines 182-183. *)
Restore(st, a, f) ==
    IF a.focus_back THEN FocusBackCall(Mark(st, "call focus_back"), f) ELSE Returned(st)

(* Lines 157-159: focus() when asked for; its error ends the call. *)
Focused(st, a, f1, f2) ==
    IF ~a.focus THEN st
    ELSE LET r == FocusCall(Mark(st, "call focus"), f1, f2)
         IN  IF r.outcome = "raised" THEN r
             ELSE [Mark(r, "focus returned") EXCEPT !.outcome = "none"]

(* Lines 161-180: the tokens, unless focus() raised. *)
Typed(st, a, kf) ==
    IF st.outcome = "raised" THEN st
    ELSE KeyLoop(st, a.keys, 1, a.send_to_process, kf)

(* Lines 182-183: the restore, unless an error ended the call before. *)
Restored(st, a, f) ==
    IF st.outcome = "raised" THEN st ELSE Restore(st, a, f)

NoFailure == [f1 |-> "none", f2 |-> "none", f |-> "none", kf |-> 0]

(* What the OS does to a call of send_input: where focus() fails in its    *)
(* first and second attempt, where focus_back_to_last_window() fails, and  *)
(* the token at which press_and_release raises (0: none).  focus() and the *)
(* restore meet every failure in SpecFocus; here one of each kind.         *)
SendFailures ==
    {NoFailure,
     [NoFailure EXCEPT !.f1 = "setfg"],
     [NoFailure EXCEPT !.f1 = "attach", !.f2 = "attach"],
     [NoFailure EXCEPT !.f = "detach"],
     [NoFailure EXCEPT !.kf = 1]}

(* The calls of send_input: the arguments, and a failure of the calls the  *)
(* arguments ask for.                                                      *)
SendInputs ==
    {i \in [a : [keys : KeyLists, focus : BOOLEAN, focus_back : BOOLEAN,
                 send_to_process : BOOLEAN, called : {TRUE}],
            o : SendFailures] :
        /\ ~i.a.focus => (i.o.f1 = "none" /\ i.o.f2 = "none")
        /\ ~i.a.focus_back => i.o.f = "none"
        /\ i.o.kf <= Len(i.a.keys)
        /\ i.a.send_to_process => i.o.kf = 0}

(* send_input(), lines 150-183: focus(), the tokens, the restore. *)
SendInput ==
    /\ \E i \in SendInputs :
          \E focused \in {Focused(Here("send_input"), i.a, i.o.f1, i.o.f2)} :
             \E typed \in {Typed(focused, i.a, i.o.kf)} :
                \E done \in {Restored(typed, i.a, i.o.f)} :
                   /\ Lands([done EXCEPT !.fgBefore = fg, !.whTest = NoneVal])
                   /\ sent' = i.a
                   /\ prev' = NoPrev
    /\ UNCHANGED <<readVars, findVars, killVars>>

-----------------------------------------------------------------------------
(* Specifications *)

NoMemory == [a \in Addresses |-> Unmapped]
NoArgs == [address |-> 0, offsets |-> NoOffsets, byte |-> FALSE]

ReadInit ==
    /\ \E m \in Memories, a \in ArgSets : ReadStart(m, a)
    /\ FindStart(<<>>, NoFault)
    /\ KillStart(<<>>)
    /\ FocusIdle

ReadNext == ReadMemory \/ Del

SpecRead == ReadInit /\ [][ReadNext]_vars

FindInit ==
    /\ ReadStart(NoMemory, NoArgs)
    /\ \E ps \in ProcLists : \E ft \in Faults(ps) : FindStart(ps, ft)
    /\ KillStart(<<>>)
    /\ FocusIdle

FindNext == GetByName

SpecFind == FindInit /\ [][FindNext]_vars

KillInit ==
    /\ ReadStart(NoMemory, NoArgs)
    /\ FindStart(<<>>, NoFault)
    /\ \E ps \in RunningLists : KillStart(ps)
    /\ FocusIdle

KillNext == KillByName

SpecKill == KillInit /\ [][KillNext]_vars

FocusInit ==
    /\ ReadStart(NoMemory, NoArgs)
    /\ FindStart(<<>>, NoFault)
    /\ KillStart(<<>>)
    /\ FocusStart

FocusNext == Focus \/ FocusBackToLastWindow \/ ForegroundChanges \/ TargetWindowChanges

SpecFocus == FocusInit /\ [][FocusNext]_vars

SendInit ==
    /\ ReadStart(NoMemory, NoArgs)
    /\ FindStart(<<>>, NoFault)
    /\ KillStart(<<>>)
    /\ FocusStart

SendNext == SendInput \/ ForegroundChanges \/ TargetWindowChanges

SpecSend == SendInit /\ [][SendNext]_vars

-----------------------------------------------------------------------------
(* Properties of read_memory and of the read handle (SpecRead) *)

Chain == args.offsets.chain

AllReadsOk == \A i \in 1 .. Len(rm.reads) : rm.reads[i].ok

(* What a successful read of the given width leaves in the buffer. *)
Stored(addr) == IF args.byte THEN mem[addr] % ByteMod ELSE mem[addr]

(* C1: with a chain of N >= 1 offsets read_memory issues exactly N reads,  *)
(* the first at the given address and the read of step i+1 at the value    *)
(* the read of step i left in the buffer plus the offset of step i; there  *)
(* is no (N+1)-th read at the address computed from the last offset.  A    *)
(* successful read leaves the stored word (of the requested width).        *)
C1_ChainReads ==
    (rm.called /\ Truthy(args.offsets)) =>
        /\ Len(rm.reads) = Len(Chain)
        /\ rm.reads[1].addr = args.address
        /\ \A i \in 1 .. (Len(Chain) - 1) :
              rm.reads[i + 1].addr = rm.reads[i].data + OffsetToInt(Chain[i])
        /\ \A i \in 1 .. Len(rm.reads) :
              rm.reads[i].ok => rm.reads[i].data = Stored(rm.reads[i].addr)

C1_Witness ==
    /\ rm.called
    /\ Len(Chain) = 2
    /\ AllReadsOk
    /\ rm.reads[1].addr # rm.reads[2].addr
    /\ Chain[1].isStr

AsHexString(offsets, i) ==
    [offsets EXCEPT !.chain[i] = StrOff(Hex(offsets.chain[i].int))]

(* C3: writing an integer offset as the hexadecimal string of the same     *)
(* value changes neither the addresses read nor the pair returned.         *)
C3_HexStringSameAsInt ==
    rm.called =>
        \A i \in 1 .. Len(Chain) :
            ~Chain[i].isStr =>
                LET other == ReadMemoryCall(rm.h, mem, args.address,
                                            AsHexString(args.offsets, i), args.byte)
                IN  /\ other.reads = rm.reads
                    /\ other.ret = rm.ret

C3_Witness ==
    /\ rm.called
    /\ Len(Chain) = 2
    /\ AllReadsOk
    /\ ~Chain[1].isStr /\ Chain[1].int < 0
    /\ ~Chain[2].isStr /\ Chain[2].int >= 16

(* C4: without a chain (None or an empty list) read_memory issues exactly  *)
(* one read, at the given address, and returns (address, value read).      *)
C4_SingleRead ==
    (rm.called /\ ~Truthy(args.offsets)) =>
        /\ Len(rm.reads) = 1
        /\ rm.reads[1].addr = args.address
        /\ rm.outcome = "returned"
        /\ rm.ret = <<args.address, rm.reads[1].data>>
        /\ rm.reads[1].ok => rm.ret[2] = Stored(args.address)

C4_Witness ==
    /\ rm.called
    /\ args.offsets.given /\ args.offsets.chain = <<>>
    /\ rm.reads[1].ok
    /\ args.byte /\ rm.ret[2] # mem[args.address]

(* C5: a read_memory call in which a memory read failed ends in a          *)
(* ReadFailed error; it returns no pair.                                   *)
C5_FailedReadRaises ==
    (rm.called /\ ~AllReadsOk) => rm.outcome = "raised"

(* C6: the read handle is opened at most once and, once the object is      *)
(* finalised, has been closed exactly once -- whatever OpenProcess         *)
(* returned.                                                               *)
C6_ClosedExactlyOnce ==
    /\ nOpen <= 1
    /\ alive => nClose = 0
    /\ ~alive => nClose = 1

(* C6 as amended: OpenProcess is called at most once (exactly once by the  *)
(* time the object is finalised); the handle is closed exactly once when   *)
(* OpenProcess returned a handle and never when it returned 0.             *)
C6_ClosedOnceIfOpened ==
    /\ nOpen <= 1
    /\ alive => nClose = 0
    /\ ~alive => /\ nOpen = 1
                 /\ handle.cached
                 /\ nClose = (IF handle.value # 0 THEN 1 ELSE 0)

C6_Witness ==
    /\ ~alive
    /\ nCalls = 2
    /\ handle.value # 0
    /\ nClose = 1

-----------------------------------------------------------------------------
(* Properties of get_by_name (SpecFind) *)

(* The file paths that contain the search name, case ignored. *)
MatchingPaths == {GamePath}

Examined(p) == procs[p].pid # Sentinel /\ procs[p].openable

(* The modules get_by_name is to find: position of the process, position   *)
(* of the module.                                                          *)
Candidates ==
    {c \in (1 .. Len(procs)) \X (1 .. MaxMods + 1) :
        /\ Examined(c[1])
        /\ c[2] <= Len(procs[c[1]].modules)
        /\ procs[c[1]].modules[c[2]] \in MatchingPaths}

Earlier(c, d) == c[1] < d[1] \/ (c[1] = d[1] /\ c[2] < d[2])

FirstCandidate == CHOOSE c \in Candidates : \A d \in Candidates : d = c \/ Earlier(c, d)

(* An OS call of the module enumeration raises before module c is compared. *)
RaisesBefore(c) ==
    /\ fault.kind # "none"
    /\ \/ fault.proc < c[1]
       \/ fault.proc = c[1] /\ (fault.kind = "enum" \/ fault.at <= c[2])

Attempted(p) ==
    \E k \in 1 .. Len(gb.log) :
        /\ gb.log[k].pid = procs[p].pid
        /\ gb.log[k].call \in {"OpenProcess", "OpenProcessFailed"}

RECURSIVE OpenAfter(_)
OpenAfter(k) ==
    IF k = 0 THEN 0
    ELSE OpenAfter(k - 1)
         + (IF gb.log[k].call = "OpenProcess" THEN 1
            ELSE IF gb.log[k].call = "CloseHandle" THEN -1 ELSE 0)

(* C8: during get_by_name at most one discovery handle is open; none is    *)
(* open when the next process is opened, and none when the call ends, be   *)
(* it by a match, by the not-found error or by an error of the module      *)
(* enumeration.                                                            *)
C8_DiscoveryHandleClosed ==
    gb.called =>
        /\ \A k \in 0 .. Len(gb.log) : OpenAfter(k) \in {0, 1}
        /\ \A k \in 1 .. Len(gb.log) :
              gb.log[k].call \in {"OpenProcess", "OpenProcessFailed"} => OpenAfter(k - 1) = 0
        /\ OpenAfter(Len(gb.log)) = 0

C8_Witness ==
    /\ gb.called
    /\ gb.outcome = "returned"
    /\ Len(procs) = 2
    /\ procs[1].openable /\ Len(procs[1].modules) = 2
    /\ gb.result[1] = procs[2].pid

(* The exit by an error of GetModuleFileNameEx, with the handle open. *)
C8_WitnessError ==
    /\ gb.called
    /\ gb.outcome = "error"
    /\ Len(procs) = 2
    /\ fault.kind = "name" /\ fault.proc = 2
    /\ \E k \in 1 .. Len(gb.log) : gb.log[k] = Ev("OpenProcess", procs[2].pid)

-----------------------------------------------------------------------------
(* Properties of kill_by_name (SpecKill) *)

(* The process names that one of the requested names matches, case ignored. *)
Requested(names) ==
    {n \in ProcessNames :
        \E i \in 1 .. Len(names) :
            /\ Len(names[i]) = Len(n)
            /\ \A j \in 1 .. Len(n) :
                  \/ names[i][j] = n[j]
                  \/ \E l \in 1 .. Len(Upper) : {names[i][j], n[j]} = {Upper[l], Lower[l]}}

(* C9: kill_by_name never ends in an error because a process denied       *)
(* access or had exited, wherever that shows (reading its name, killing    *)
(* it, logging), and every running process whose name is requested gets a  *)
(* termination attempt whatever happened with the others.                  *)
C9_NeverRaisesAndKillsAll ==
    kb.called =>
        /\ kb.outcome = "raised" =>
              ~(kb.error \in PsutilErrors /\ running[kb.at].name \in Requested(kb.names))
        /\ \A i \in 1 .. Len(running) :
              running[i].name \in Requested(kb.names) =>
                  \E k \in 1 .. Len(kb.kills) : kb.kills[k] = i

-----------------------------------------------------------------------------
(* Properties of focus (SpecFocus) *)

(* The calls of a focus attempt: keypress, attach, set-foreground. *)
FocusCalls(log) ==
    {k \in 1 .. Len(log) :
        log[k].call \in {"press", "AttachThreadInput", "SetForegroundWindow"}}

(* C10: focus() called while the target window (window_handle) is the      *)
(* foreground window sends no keypress, attaches no thread input and sets  *)
(* no foreground window; a focus() that returns after finding another      *)
(* window in front made exactly one change of foreground, to the target;   *)
(* so of two focus() calls in a row, with no change of foreground between, *)
(* the first makes one real transition and the second makes no OS call.    *)
C10_FocusIdempotent ==
    /\ (op.name = "focus" /\ op.fgBefore = op.whTest) =>
          /\ FocusCalls(op.log) = {}
          /\ op.outcome = "returned"
          /\ fg = op.fgBefore
    /\ (op.name = "focus" /\ op.outcome = "returned" /\ op.fgBefore # op.whTest) =>
          /\ Transitions(op.log) = 1
          /\ fg = winCache.value
          /\ \A k \in 1 .. Len(op.log) :
                (op.log[k].call = "SetForegroundWindow" /\ op.log[k].ok) => op.log[k].a = fg
    /\ (op.name = "focus" /\ prev.name = "focus" /\ prev.outcome = "returned") =>
          /\ FocusCalls(op.log) = {}
          /\ op.outcome = "returned"
          /\ prev.transitions <= 1
          /\ ~prev.noop => prev.transitions = 1

C10_Witness ==
    /\ op.name = "focus"
    /\ prev.name = "focus" /\ prev.outcome = "returned" /\ prev.transitions = 1
    /\ FocusCalls(op.log) = {}
    /\ fg \in TargetWindows

-----------------------------------------------------------------------------
(* Properties of the retry, the caches and the snapshot (SpecFocus) *)

(* The keypresses of a log: one opens each attempt of focus(). *)
Attempts(log) == Cardinality({k \in 1 .. Len(log) : log[k].call = "press"})

(* The OS calls of a log that raised. *)
FailedCalls(log) == {k \in 1 .. Len(log) : ~log[k].ok}

(* The error a failed OS call raises, as the attempt names it. *)
ErrorOf(c) ==
    IF c.call = "press" THEN "press"
    ELSE IF c.call = "AttachThreadInput" THEN "attach"
    ELSE IF c.call = "DetachThreadInput" THEN "detach"
    ELSE "setfg"

LastFailed(log) == CHOOSE k \in FailedCalls(log) : \A j \in FailedCalls(log) : j <= k

(* C11: focus() makes at most two attempts; it returns after one attempt   *)
(* when the first succeeds, returns after two when only the first failed,  *)
(* and when both failed it raises the error of the call that failed in the *)
(* second attempt, whichever call that was.                                *)
C11_SecondFailureSurfaces ==
    op.name = "focus" =>
        /\ Attempts(op.log) <= 2
        /\ Cardinality(FailedCalls(op.log)) <= 2
        /\ (Attempts(op.log) >= 1 /\ FailedCalls(op.log) = {}) =>
              (op.outcome = "returned" /\ Attempts(op.log) = 1)
        /\ Cardinality(FailedCalls(op.log)) = 1 =>
              (op.outcome = "returned" /\ Attempts(op.log) = 2)
        /\ Cardinality(FailedCalls(op.log)) = 2 =>
              /\ op.outcome = "raised"
              /\ op.err = ErrorOf(op.log[LastFailed(op.log)])

(* C12: every failed attempt of focus() leaves neither window_handle nor   *)
(* thread_id cached, and no operation without a failed attempt (a focus()  *)
(* whose calls all went through, focus_back_to_last_window()) drops a      *)
(* cached value.                                                           *)
C12_FailedAttemptInvalidatesBoth ==
    [][ /\ (op'.name = "focus" /\ op'.outcome = "raised" /\ op'.err # "AttributeError") =>
              (~winCache'.cached /\ ~tidCache'.cached)
        /\ (op'.name = "focus_back" \/ (op'.name = "focus" /\ FailedCalls(op'.log) = {})) =>
              /\ winCache.cached => winCache' = winCache
              /\ tidCache.cached => tidCache' = tidCache ]_vars

(* C13: focus_back_to_last_window(), called with a snapshot taken, returns *)
(* normally whichever of its calls failed.                                 *)
C13_RestoreNeverRaises ==
    (op.name = "focus_back" /\ snapshot.win # NoneVal) => op.outcome = "returned"

(* C17: a focus() that finds the target's window in front leaves the       *)
(* snapshot as it was.                                                     *)
C17_NoOpFocusKeepsSnapshot ==
    [][ (op'.name = "focus" /\ op'.fgBefore = op'.whTest /\ op'.fgBefore \in TargetWindows) =>
            snapshot' = snapshot ]_vars

(* The calls by which focus_back_to_last_window() acts on a snapshot. *)
RestoreCalls(log) ==
    {k \in 1 .. Len(log) : log[k].call \in {"DetachThreadInput", "SetForegroundWindow"}}

(* C18: a focus_back_to_last_window() that follows one which used the      *)
(* snapshot, with no focus() between, detaches nothing and sets no         *)
(* foreground window; one called before any focus() makes no OS call on a  *)
(* snapshot and returns.                                                   *)
C18_SnapshotConsumedOnce ==
    [][ /\ ( /\ op.name = "focus_back" /\ op.outcome = "returned"
             /\ RestoreCalls(op.log) # {}
             /\ op'.name = "focus_back" ) => RestoreCalls(op'.log) = {}
        /\ (snapshot.win = NoneVal /\ op'.name = "focus_back") =>
              /\ RestoreCalls(op'.log) = {}
              /\ Attempts(op'.log) = 0
              /\ op'.outcome = "returned" ]_vars

(* Successful AttachThreadInput(.., False) calls in a log. *)
Detaches(log) ==
    Cardinality({k \in 1 .. Len(log) : log[k].call = "DetachThreadInput" /\ log[k].ok})

(* C19: a focus() that found another application's window W in front and   *)
(* returned, followed by a focus_back_to_last_window() none of whose calls *)
(* failed, leaves W in front and has detached as often as focus() attached.*)
C19_RoundTrip ==
    ( /\ op.name = "focus_back" /\ FailedCalls(op.log) = {}
      /\ prev.name = "focus" /\ prev.outcome = "returned"
      /\ prev.fgBefore = OtherWin /\ ~prev.noop ) =>
        /\ op.outcome = "returned"
        /\ fg = OtherWin
        /\ Detaches(op.log) = prev.attaches

(* C20: when window_handle and thread_id are both cached and the handle is *)
(* a window, thread_id is the thread that owns that window.                *)
C20_ThreadIdOwnsWindow ==
    (winCache.cached /\ tidCache.cached /\ winCache.value \in Existing(titled)) =>
        tidCache.value = OwnerThread(winCache.value, titled)

-----------------------------------------------------------------------------
(* Properties of send_input (SpecSend) *)

(* The places of the entries of a log made by the call named. *)
Idx(log, name) == {k \in 1 .. Len(log) : log[k].call = name}

(* The key events of a log: synthetic keys and window messages. *)
KeyEvents(log) == Idx(log, "key") \cup Idx(log, "SendMessage") \cup Idx(log, "PostMessage")

(* The calls by which focus() and the restore act on the desktop. *)
DesktopCalls(log) ==
    Idx(log, "press") \cup Idx(log, "AttachThreadInput")
        \cup Idx(log, "DetachThreadInput") \cup Idx(log, "SetForegroundWindow")

(* No call before line 182 raised: focus() returned when it was called,    *)
(* and every key event went through.                                       *)
LoopDone(log) ==
    /\ sent.focus => Idx(log, "focus returned") # {}
    /\ \A k \in KeyEvents(log) : log[k].ok
    /\ \A i \in 1 .. Len(sent.keys) : \E k \in KeyEvents(log) : log[k].token = i

(* C14: in send_input, focus() is called once, first, when focus is true   *)
(* and has returned before any key event, and is not called when focus is  *)
(* false; the key events come in the order of the tokens, all events of a  *)
(* token before any of the next, each synthetic key being the token        *)
(* given; focus_back_to_last_window() is called once, after the events of  *)
(* the last token, when focus_back is true and the call got that far, and  *)
(* is not called when focus_back is false.                                 *)
C14_SendInputOrder ==
    op.name = "send_input" =>
        /\ sent.called
        /\ sent.focus =>
              /\ Idx(op.log, "call focus") = {1}
              /\ Cardinality(Idx(op.log, "focus returned")) <= 1
              /\ \A k \in KeyEvents(op.log) :
                    \E r \in Idx(op.log, "focus returned") : r < k
        /\ ~sent.focus =>
              /\ Idx(op.log, "call focus") = {}
              /\ Idx(op.log, "AttachThreadInput") = {}
        /\ \A j \in KeyEvents(op.log), k \in KeyEvents(op.log) :
              j < k => op.log[j].token <= op.log[k].token
        /\ \A k \in KeyEvents(op.log) : op.log[k].token \in 1 .. Len(sent.keys)
        /\ \A k \in Idx(op.log, "key") : op.log[k].key = sent.keys[op.log[k].token]
        /\ (~sent.send_to_process /\ LoopDone(op.log)) =>
              \A i \in 1 .. Len(sent.keys) :
                 Cardinality({k \in Idx(op.log, "key") : op.log[k].token = i}) = 1
        /\ sent.focus_back =>
              /\ Cardinality(Idx(op.log, "call focus_back")) <= 1
              /\ LoopDone(op.log) => Cardinality(Idx(op.log, "call focus_back")) = 1
              /\ Idx(op.log, "call focus_back") # {} => LoopDone(op.log)
              /\ \A r \in Idx(op.log, "call focus_back"), k \in KeyEvents(op.log) : k < r
              /\ \A r \in Idx(op.log, "call focus_back"), k \in Idx(op.log, "DetachThreadInput") :
                    r < k
        /\ ~sent.focus_back =>
              /\ Idx(op.log, "call focus_back") = {}
              /\ Idx(op.log, "DetachThreadInput") = {}

C14_Witness ==
    /\ op.name = "send_input" /\ op.outcome = "returned"
    /\ sent.focus /\ sent.focus_back /\ ~sent.send_to_process
    /\ Len(sent.keys) = 2
    /\ Cardinality(Idx(op.log, "key")) = 2
    /\ Transitions(op.log) = 2
    /\ Idx(op.log, "call focus_back") # {}

(* C15: send_input straight to the window, with focus and focus_back       *)
(* false, presses no key on the desktop, attaches and detaches no thread   *)
(* input and sets no foreground window; every message is addressed to      *)
(* window_handle, and when that is a window a key-down and a key-up of     *)
(* every token reach it, whichever window is in front.                     *)
C15_DirectBypassesFocus ==
    (op.name = "send_input" /\ sent.send_to_process /\ ~sent.focus /\ ~sent.focus_back) =>
        /\ DesktopCalls(op.log) = {}
        /\ Idx(op.log, "key") = {}
        /\ fg = op.fgBefore
        /\ \A k \in KeyEvents(op.log) : winCache.cached /\ op.log[k].a = winCache.value
        /\ (winCache.cached /\ winCache.value \in Existing(titled)) =>
              /\ op.outcome = "returned"
              /\ \A i \in 1 .. Len(sent.keys) :
                    /\ \E k \in Idx(op.log, "SendMessage") :
                          /\ op.log[k].token = i /\ op.log[k].delivered
                          /\ op.log[k].msg = WM_KEYDOWN
                    /\ \E k \in Idx(op.log, "PostMessage") :
                          /\ op.log[k].token = i /\ op.log[k].delivered
                          /\ op.log[k].msg = WM_KEYUP

C15_Witness ==
    /\ op.name = "send_input" /\ op.outcome = "returned"
    /\ sent.send_to_process /\ ~sent.focus /\ ~sent.focus_back
    /\ Len(sent.keys) = 2
    /\ fg = OtherWin /\ winCache.value = W1 /\ titled = W1
    /\ Cardinality({k \in KeyEvents(op.log) : op.log[k].delivered}) = 4

IsMessage(e) == e.call \in {"SendMessage", "PostMessage"}

(* The messages of a log, in the order they were sent. *)
Messages(log) == SelectSeq(log, IsMessage)

=============================================================================
